---- MODULE Spec2Model ----
(***************************************************************************)
(* Model of src/deduplicate.py: deduplicate_file(input_path, output_path). *)
(*                                                                         *)
(* A text is a sequence of Unicode code points.  A file is either Absent   *)
(* or a text (the decoded content; UTF-8 decoding itself is modelled only  *)
(* by the fault it can raise while reading).  Newline handling is that of  *)
(* Python's text mode on a POSIX platform (os.linesep = "\n").             *)
(***************************************************************************)
EXTENDS Integers, Sequences, FiniteSets, TLC

\* ------------------------------------------------------------------ bounds
MaxLen      == 4    \* longest input file content, in characters
MaxRerunLen == 3    \* longest input file content when the program is run again
MaxRuns     == 2    \* invocations on the same pair of paths

\* Characters input files are built from: "\n", "\r", " ", U+00A0, "a", "b".
Chars == {10, 13, 32, 160, 97, 98}

\* A path that names no file: a marker no file content can equal (code
\* points are never negative).
Absent     == <<-1>>

\* Contents the output path may hold before the first invocation.
OldOutputs == {Absent, <<122, 10>>}

input_path  == "in.txt"
output_path == "out.txt"

\* ------------------------------------------------------- text primitives
\* str.isspace(): the characters str.strip() removes when called without
\* an argument.
PyWhitespace ==
    {9, 10, 11, 12, 13, 28, 29, 30, 31, 32, 133, 160, 5760}
        \cup (8192 .. 8202) \cup {8232, 8233, 8239, 8287, 12288}

RECURSIVE lstrip(_)
lstrip(s) ==
    IF s = <<>> THEN s
    ELSE IF Head(s) \in PyWhitespace THEN lstrip(Tail(s)) ELSE s

RECURSIVE rstrip(_)
rstrip(s) ==
    IF s = <<>> THEN s
    ELSE IF s[Len(s)] \in PyWhitespace THEN rstrip(SubSeq(s, 1, Len(s) - 1))
    ELSE s

strip_left_only(s) == lstrip(s)

\* line.strip()
strip(s) == rstrip(lstrip(s))

keep_all(ln) == TRUE

\* the filter "if line" of the set comprehension
keep(ln) == ln # <<>>

set_only_last(S, x) == {x}

\* insertion into the set built by the comprehension
set_add(S, x) == S \cup {x}

\* Universal-newline record reading: the index of the first line break at
\* or after p, or Len(s) + 1 when there is none.
RECURSIVE NextBreak(_, _)
NextBreak(s, p) ==
    IF p > Len(s) THEN Len(s) + 1
    ELSE IF s[p] \in {10, 13} THEN p
    ELSE NextBreak(s, p + 1)

\* The record the iteration "for line in f_in" yields at position p: the
\* characters up to the break, with "\n", "\r" or "\r\n" translated to "\n".
readline(s, p) ==
    LET b == NextBreak(s, p) IN
    IF b > Len(s) THEN SubSeq(s, p, Len(s))
    ELSE SubSeq(s, p, b - 1) \o <<10>>

\* The position of the handle after that record.
readline_end(s, p) ==
    LET b == NextBreak(s, p) IN
    IF b > Len(s) THEN Len(s) + 1
    ELSE IF s[b] = 13 /\ b < Len(s) /\ s[b + 1] = 10 THEN b + 2
    ELSE b + 1

str_le_by_length(a, b) ==
    IF Len(a) # Len(b) THEN Len(a) < Len(b)
    ELSE \A i \in 1 .. Len(a) :
             (\A j \in 1 .. i - 1 : a[j] = b[j]) => a[i] <= b[i]

\* str comparison a <= b: by code point, position by position.
RECURSIVE str_le(_, _)
str_le(a, b) ==
    IF a = <<>> THEN TRUE
    ELSE IF b = <<>> THEN FALSE
    ELSE IF Head(a) # Head(b) THEN Head(a) < Head(b)
    ELSE str_le(Tail(a), Tail(b))

\* list(unique_lines): the elements of the set in an order the hash decides.
list_of(S) ==
    {f \in [1 .. Cardinality(S) -> S] : \A i, j \in DOMAIN f : i # j => f[i] # f[j]}

RECURSIVE insert_sorted(_, _)
insert_sorted(x, l) ==
    IF l = <<>> THEN <<x>>
    ELSE IF str_le(x, Head(l)) THEN <<x>> \o l
    ELSE <<Head(l)>> \o insert_sorted(x, Tail(l))

RECURSIVE sort_list(_)
sort_list(l) ==
    IF l = <<>> THEN <<>>
    ELSE insert_sorted(l[Len(l)], sort_list(SubSeq(l, 1, Len(l) - 1)))

sorted_missing(l) == l

\* sorted(...)
sorted(l) == sort_list(l)

write_no_newline(ln) == ln

\* the argument of f_out.write: line + '\n'
write_data(ln) == ln \o <<10>>

open_append(old) == IF old = Absent THEN <<>> ELSE old

\* open(output_path, 'w'): the content of the file once it is open
open_w(old) == <<>>

exists_always(f) == TRUE

\* os.path.exists
exists(f) == f # Absent

with_exit_leak(h) == h

\* leaving a "with" block, normally or by an exception: the handle is closed
with_exit(h) == FALSE

\* ---------------------------------------------------- exception handling
IsIOError(e)   == e \in {"OSError"}
IsException(e) == e \in {"OSError", "UnicodeDecodeError"}

handler_io_only(e) == IF IsIOError(e) THEN "IOError" ELSE "propagate"

\* the except clauses of the try statement, in order
handler(e) ==
    IF IsIOError(e) THEN "IOError"
    ELSE IF IsException(e) THEN "UnexpectedError"
    ELSE "propagate"

NoMessage == [kind |-> "none", path |-> "", count |-> -1]

\* ----------------------------------------------------------------- state
VARIABLES
    inFile,        \* content of the file at input_path, or Absent
    outFile,       \* content of the file at output_path, or Absent
    pc,            \* position of the invocation in deduplicate_file
    inOpen,        \* f_in is open
    outOpen,       \* f_out is open
    pos,           \* read position of f_in
    rec,           \* the record last yielded by f_in
    line,          \* its stripped value
    unique_lines,  \* the set being built
    sorted_lines,  \* the sorted list
    idx,           \* index of the next line to write
    exc,           \* the exception in flight, or "none"
    printed,       \* the message printed by this invocation
    returned,      \* how the invocation ended: "none", "return" or "raise"
    raisedAt,      \* the step at which exc was raised (history)
    outBefore,     \* content at output_path when the invocation began (history)
    prevOut,       \* output of the last successful earlier invocation (history)
    runs           \* number of invocations begun

vars == <<inFile, outFile, pc, inOpen, outOpen, pos, rec, line, unique_lines,
          sorted_lines, idx, exc, printed, returned, raisedAt,
          outBefore, prevOut, runs>>

Texts == UNION {[1 .. n -> Chars] : n \in 0 .. MaxLen}

\* No earlier invocation succeeded (again a marker, not a content).
NoRun == <<-2>>

Init ==
    /\ inFile \in Texts \cup {Absent}
    /\ outFile \in OldOutputs
    /\ pc = "exists"
    /\ inOpen = FALSE
    /\ outOpen = FALSE
    /\ pos = 1
    /\ rec = <<>>
    /\ line = <<>>
    /\ unique_lines = {}
    /\ sorted_lines = <<>>
    /\ idx = 1
    /\ exc = "none"
    /\ printed = NoMessage
    /\ returned = "none"
    /\ raisedAt = "none"
    /\ outBefore = outFile
    /\ prevOut = NoRun
    /\ runs = 1

locals == <<pos, rec, line, unique_lines, sorted_lines, idx>>

\* --------------------------------------------------------------- actions
\* line 20-22: the existence check
ExistsCheck ==
    /\ pc = "exists"
    /\ IF exists(inFile)
       THEN /\ pc' = "open_in"
            /\ UNCHANGED <<printed, returned>>
       ELSE /\ pc' = "Terminated"
            /\ printed' = [kind |-> "NotFoundError", path |-> input_path, count |-> -1]
            /\ returned' = "return"
    /\ UNCHANGED <<inFile, outFile, inOpen, outOpen, locals, exc, raisedAt,
                   outBefore, prevOut, runs>>

\* line 25: open(input_path, 'r') succeeds
OpenInput ==
    /\ pc = "open_in"
    /\ inFile # Absent
    /\ inOpen' = TRUE
    /\ pos' = 1
    /\ pc' = "read"
    /\ UNCHANGED <<inFile, outFile, outOpen, rec, line, unique_lines, sorted_lines,
                   idx, exc, printed, returned, raisedAt, outBefore, prevOut, runs>>

\* line 25: open(input_path, 'r') raises (missing, a directory, not readable)
OpenInputFault ==
    /\ pc = "open_in"
    /\ exc' = "OSError"
    /\ raisedAt' = "open_in"
    /\ pc' = "except"
    /\ UNCHANGED <<inFile, outFile, inOpen, outOpen, locals, printed, returned,
                   outBefore, prevOut, runs>>

\* lines 28-29: one iteration of the comprehension over f_in
ReadRecord ==
    /\ pc = "read"
    /\ pos <= Len(inFile)
    /\ rec' = readline(inFile, pos)
    /\ pos' = readline_end(inFile, pos)
    /\ line' = strip(rec')
    /\ unique_lines' = IF keep(line') THEN set_add(unique_lines, line') ELSE unique_lines
    /\ UNCHANGED <<inFile, outFile, pc, inOpen, outOpen, sorted_lines, idx, exc,
                   printed, returned, raisedAt, outBefore, prevOut, runs>>

\* lines 28-29: reading a record raises; the with block closes f_in
ReadFault ==
    /\ pc = "read"
    /\ pos <= Len(inFile)
    /\ \E e \in {"OSError", "UnicodeDecodeError"} : exc' = e
    /\ raisedAt' = "read"
    /\ inOpen' = with_exit(inOpen)
    /\ pc' = "except"
    /\ UNCHANGED <<inFile, outFile, outOpen, locals, printed, returned,
                   outBefore, prevOut, runs>>

\* line 29: the input is exhausted; the with block closes f_in
CloseInput ==
    /\ pc = "read"
    /\ pos > Len(inFile)
    /\ inOpen' = with_exit(inOpen)
    /\ pc' = "sort"
    /\ UNCHANGED <<inFile, outFile, outOpen, locals, exc, printed, returned,
                   raisedAt, outBefore, prevOut, runs>>

\* line 32: sorted(list(unique_lines))
Sort ==
    /\ pc = "sort"
    /\ \E l \in list_of(unique_lines) : sorted_lines' = sorted(l)
    /\ pc' = "open_out"
    /\ UNCHANGED <<inFile, outFile, inOpen, outOpen, pos, rec, line, unique_lines,
                   idx, exc, printed, returned, raisedAt, outBefore, prevOut, runs>>

\* line 34: open(output_path, 'w') succeeds, creating or truncating the file
OpenOutput ==
    /\ pc = "open_out"
    /\ outFile' = open_w(outFile)
    /\ outOpen' = TRUE
    /\ idx' = 1
    /\ pc' = "write"
    /\ UNCHANGED <<inFile, inOpen, pos, rec, line, unique_lines, sorted_lines,
                   exc, printed, returned, raisedAt, outBefore, prevOut, runs>>

\* line 34: open(output_path, 'w') raises
OpenOutputFault ==
    /\ pc = "open_out"
    /\ exc' = "OSError"
    /\ raisedAt' = "open_out"
    /\ pc' = "except"
    /\ UNCHANGED <<inFile, outFile, inOpen, outOpen, locals, printed, returned,
                   outBefore, prevOut, runs>>

\* lines 35-36: one iteration of the write loop
WriteLine ==
    /\ pc = "write"
    /\ idx <= Len(sorted_lines)
    /\ outFile' = outFile \o write_data(sorted_lines[idx])
    /\ idx' = idx + 1
    /\ UNCHANGED <<inFile, pc, inOpen, outOpen, pos, rec, line, unique_lines,
                   sorted_lines, exc, printed, returned, raisedAt, outBefore,
                   prevOut, runs>>

\* lines 35-36: the write raises after k characters reached the file; the
\* with block closes f_out
WriteFault ==
    /\ pc = "write"
    /\ idx <= Len(sorted_lines)
    /\ \E k \in 0 .. Len(write_data(sorted_lines[idx])) - 1 :
           outFile' = outFile \o SubSeq(write_data(sorted_lines[idx]), 1, k)
    /\ exc' = "OSError"
    /\ raisedAt' = "write"
    /\ outOpen' = with_exit(outOpen)
    /\ pc' = "except"
    /\ UNCHANGED <<inFile, inOpen, locals, printed, returned, outBefore,
                   prevOut, runs>>

\* line 36: the loop is over; the with block closes f_out
CloseOutput ==
    /\ pc = "write"
    /\ idx > Len(sorted_lines)
    /\ outOpen' = with_exit(outOpen)
    /\ pc' = "report"
    /\ UNCHANGED <<inFile, outFile, inOpen, locals, exc, printed, returned,
                   raisedAt, outBefore, prevOut, runs>>

\* line 36: closing f_out raises; the handle is closed all the same
CloseOutputFault ==
    /\ pc = "write"
    /\ idx > Len(sorted_lines)
    /\ outOpen' = with_exit(outOpen)
    /\ exc' = "OSError"
    /\ raisedAt' = "close_out"
    /\ pc' = "except"
    /\ UNCHANGED <<inFile, outFile, inOpen, locals, printed, returned,
                   outBefore, prevOut, runs>>

\* line 38: the success message
Report ==
    /\ pc = "report"
    /\ printed' = [kind |-> "success", path |-> output_path, count |-> Len(sorted_lines)]
    /\ returned' = "return"
    /\ pc' = "Terminated"
    /\ UNCHANGED <<inFile, outFile, inOpen, outOpen, locals, exc, raisedAt,
                   outBefore, prevOut, runs>>

\* lines 40-43: the except clauses
Except ==
    /\ pc = "except"
    /\ IF handler(exc) = "propagate"
       THEN /\ returned' = "raise"
            /\ UNCHANGED <<printed, exc>>
       ELSE /\ returned' = "return"
            /\ printed' = [kind |-> handler(exc), path |-> "", count |-> -1]
            /\ exc' = "none"
    /\ pc' = "Terminated"
    /\ UNCHANGED <<inFile, outFile, inOpen, outOpen, locals, raisedAt,
                   outBefore, prevOut, runs>>

\* lines 52-54: the program is run again on the same two paths
Rerun ==
    /\ pc = "Terminated"
    /\ runs < MaxRuns
    /\ runs' = runs + 1
    /\ prevOut' = IF printed.kind = "success" THEN outFile ELSE prevOut
    /\ outBefore' = outFile
    /\ pc' = "exists"
    /\ pos' = 1
    /\ rec' = <<>>
    /\ line' = <<>>
    /\ unique_lines' = {}
    /\ sorted_lines' = <<>>
    /\ idx' = 1
    /\ exc' = "none"
    /\ printed' = NoMessage
    /\ returned' = "none"
    /\ raisedAt' = "none"
    /\ UNCHANGED <<inFile, outFile, inOpen, outOpen>>

\* One invocation of deduplicate_file.
Next ==
    \/ ExistsCheck
    \/ OpenInput
    \/ OpenInputFault
    \/ ReadRecord
    \/ ReadFault
    \/ CloseInput
    \/ Sort
    \/ OpenOutput
    \/ OpenOutputFault
    \/ WriteLine
    \/ WriteFault
    \/ CloseOutput
    \/ CloseOutputFault
    \/ Report
    \/ Except

Spec == Init /\ [][Next]_vars

\* Invocations one after the other on the same two paths.
RerunInit == Init /\ (inFile = Absent \/ Len(inFile) <= MaxRerunLen)

RerunNext ==
    \/ ExistsCheck
    \/ OpenInput
    \/ OpenInputFault
    \/ ReadRecord
    \/ ReadFault
    \/ CloseInput
    \/ Sort
    \/ OpenOutput
    \/ OpenOutputFault
    \/ WriteLine
    \/ WriteFault
    \/ CloseOutput
    \/ CloseOutputFault
    \/ Report
    \/ Except
    \/ Rerun

RerunSpec == RerunInit /\ [][RerunNext]_vars

\* The interpreter runs a started invocation on: it never stops between steps.
FairSpec == Spec /\ WF_vars(Next)

\* ------------------------------------------- vocabulary of the properties
SetMin(S) == CHOOSE x \in S : \A y \in S : x <= y
SetMax(S) == CHOOSE x \in S : \A y \in S : y <= x

Range(f) == {f[i] : i \in DOMAIN f}

\* s without its leading and trailing characters of W; the rest untouched.
TrimBy(s, W) ==
    LET inner == {i \in 1 .. Len(s) : s[i] \notin W} IN
    IF inner = {} THEN <<>> ELSE SubSeq(s, SetMin(inner), SetMax(inner))

\* The six characters the specification lists as whitespace.
ListedWhitespace == {32, 9, 10, 13, 12, 11}

IsBreak(c) == c \in {10, 13}

\* The maximal stretches of a text between line breaks: where they lie, and
\* what they hold.
Spans(f) ==
    {ij \in (1 .. Len(f)) \X (1 .. Len(f)) :
        /\ ij[1] <= ij[2]
        /\ \A k \in ij[1] .. ij[2] : ~ IsBreak(f[k])
        /\ (ij[1] = 1 \/ IsBreak(f[ij[1] - 1]))
        /\ (ij[2] = Len(f) \/ IsBreak(f[ij[2] + 1]))}

Segments(f) == {SubSeq(f, ij[1], ij[2]) : ij \in Spans(f)}

\* The non-empty trimmed lines of an input text.
TrimmedLines(f) == {TrimBy(s, PyWhitespace) : s \in Segments(f)} \ {<<>>}

\* The newline-terminated lines of an output text, in order.
Newlines(f) == {i \in 1 .. Len(f) : f[i] = 10}

LineEnding(f, k) ==
    CHOOSE i \in Newlines(f) : Cardinality({j \in Newlines(f) : j <= i}) = k

FileLines(f) ==
    [k \in 1 .. Cardinality(Newlines(f)) |->
        SubSeq(f, IF k = 1 THEN 1 ELSE LineEnding(f, k - 1) + 1, LineEnding(f, k) - 1)]

IsPrefix(a, b) == Len(a) <= Len(b) /\ SubSeq(b, 1, Len(a)) = a

\* a <= b by code points: a is a prefix of b, or a is smaller where they
\* first differ.
CodePointLeq(a, b) ==
    \/ IsPrefix(a, b)
    \/ \E i \in 1 .. Len(a) :
          /\ i <= Len(b)
          /\ a[i] < b[i]
          /\ \A j \in 1 .. i - 1 : a[j] = b[j]

\* The text made of each entry followed by one newline.
RECURSIVE Rendered(_)
Rendered(l) == IF l = <<>> THEN <<>> ELSE Head(l) \o <<10>> \o Rendered(Tail(l))

Running    == pc # "Terminated"
Terminated == pc = "Terminated"
Succeeded  == Terminated /\ printed.kind = "success"

\* The invocation has opened the output file.
OutputOpened ==
    \/ pc \in {"write", "report"}
    \/ raisedAt \in {"write", "close_out"}
    \/ printed.kind = "success"

\* ----------------------------------------------------------------- claims
\* C1 (dedup correctness): after a successful run the lines of the output
\* file are pairwise different, and the set of them is the set of the
\* non-empty trimmed lines of the input.
C1_DedupCorrect ==
    Succeeded =>
        LET out == FileLines(outFile) IN
        /\ \A i, j \in DOMAIN out : i # j => out[i] # out[j]
        /\ Range(out) = TrimmedLines(inFile)

\* A successful run on an input with more non-blank lines than different
\* trimmed lines: a duplicate collapsed.
C1_Witness ==
    /\ Succeeded
    /\ Cardinality({ij \in Spans(inFile) :
            TrimBy(SubSeq(inFile, ij[1], ij[2]), PyWhitespace) # <<>>})
          > Cardinality(TrimmedLines(inFile))

C3_SortOrder ==
    /\ \A i \in 1 .. Len(sorted_lines) - 1 :
          CodePointLeq(sorted_lines[i], sorted_lines[i + 1])
    /\ OutputOpened =>
          LET out == FileLines(outFile) IN
          \A i \in 1 .. Len(out) - 1 : CodePointLeq(out[i], out[i + 1])

\* A successful run whose last input line is the first line of an output of
\* two lines or more: the input was not in sorted order.
C3_Witness ==
    /\ Succeeded
    /\ Len(sorted_lines) >= 2
    /\ line = sorted_lines[1]
    /\ FileLines(outFile) = sorted_lines

\* C4 (missing file): an invocation whose input path names no file ends by
\* returning, having printed the not-found message with the input path, and
\* with the output path as it was: absent if it was absent, the same
\* content otherwise.
C4_MissingFile ==
    (Terminated /\ inFile = Absent) =>
        /\ printed = [kind |-> "NotFoundError", path |-> input_path, count |-> -1]
        /\ returned = "return"
        /\ outFile = outBefore
        /\ ~ inOpen /\ ~ outOpen

\* The input is missing and an output file exists.
C4_Witness ==
    /\ Terminated
    /\ inFile = Absent
    /\ outFile # Absent

\* C5 (idempotence): a successful run leaves the output file with the
\* content the earlier successful run on the same input left.
C5_Idempotent ==
    (Succeeded /\ prevOut # NoRun) => outFile = prevOut

\* A second successful run that wrote at least two lines, the first run
\* having started from an output file with other content.
C5_Witness ==
    /\ Succeeded
    /\ prevOut # NoRun
    /\ runs >= 2
    /\ Len(sorted_lines) >= 2

\* C6 (no fault escapes): a terminated invocation has returned to its caller
\* with a message printed and no exception in flight; once a step has raised,
\* the only thing the invocation still does is report the fault and
\* terminate (no step runs again); and every running invocation terminates.
C6_NoFaultEscapes ==
    /\ [](Terminated =>
             /\ returned = "return"
             /\ exc = "none"
             /\ printed.kind \in {"success", "NotFoundError", "IOError", "UnexpectedError"})
    /\ [](raisedAt # "none" => pc \in {"except", "Terminated"})
    /\ [][(raisedAt # "none" /\ runs' = runs) =>
             /\ pc' = "Terminated"
             /\ printed'.kind \in {"IOError", "UnexpectedError"}]_vars
    /\ (Running ~> Terminated)

\* A decoding fault raised while reading was caught by the catch-all clause.
C6_Witness ==
    /\ Terminated
    /\ raisedAt = "read"
    /\ printed.kind = "UnexpectedError"
    /\ returned = "return"

\* C7 (output format and count): after a successful run the output file is
\* exactly the sorted sequence with one newline after each entry, whatever
\* it held before; the reported count is the number of lines in it and the
\* reported path the output path; an input without a non-blank line gives an
\* empty file and the count 0.
C7_FormatAndCount ==
    Succeeded =>
        /\ outFile = Rendered(sorted_lines)
        /\ printed.count = Cardinality(Newlines(outFile))
        /\ printed.count = Len(sorted_lines)
        /\ printed.path = output_path
        /\ (TrimmedLines(inFile) = {} => outFile = <<>> /\ printed.count = 0)

\* A successful run that wrote two lines or more over an existing file.
C7_Witness ==
    /\ Succeeded
    /\ outBefore # Absent
    /\ outBefore # outFile
    /\ printed.count >= 2

\* C8 as stated (trimming): the trimmed line is the record without its
\* leading and trailing space, tab, newline, carriage return, form feed and
\* vertical tab characters, and it is in the set exactly when it is not
\* empty.
C8_ListedWhitespaceOnly ==
    /\ line = TrimBy(rec, ListedWhitespace)
    /\ (line # <<>> => line \in unique_lines)
    /\ <<>> \notin unique_lines

\* C8 as amended (trimming): the trimmed line is the record without its
\* leading and trailing characters of str.isspace(), its other characters
\* unchanged; the record is a line of the input; and the trimmed line is in
\* the set exactly when it is not empty.
C8_Trim ==
    /\ line = TrimBy(rec, PyWhitespace)
    /\ rec # <<>> =>
          LET body == IF rec[Len(rec)] = 10 THEN SubSeq(rec, 1, Len(rec) - 1) ELSE rec
          IN  body = <<>> \/ body \in Segments(inFile)
    /\ (line # <<>> => line \in unique_lines)
    /\ <<>> \notin unique_lines

\* A record has just been read whose kept line is not what trimming the six
\* listed characters gives.
C8_Witness ==
    /\ pc = "read"
    /\ pos > 1
    /\ line # <<>>
    /\ line # TrimBy(rec, ListedWhitespace)

\* C9 (handle discipline): the two handles are never open together; the
\* input handle is open only in the read step and the output handle only in
\* the write step, which begins with the input wholly read into the set;
\* both are closed in Terminated.
C9_Handles ==
    /\ ~ (inOpen /\ outOpen)
    /\ (inOpen => pc = "read")
    /\ (outOpen => pc = "write" /\ pos > Len(inFile)
                   /\ unique_lines = TrimmedLines(inFile))
    /\ (Terminated => ~ inOpen /\ ~ outOpen)

\* An invocation terminated after a write raised with the output handle open.
C9_Witness ==
    /\ Terminated
    /\ raisedAt = "write"
    /\ idx > 1

\* C10 (frame of the output file): a fault in opening or reading the input
\* leaves the output path as it was; the output file differs from what it
\* was only once the input is wholly read and closed; after a fault in
\* writing or closing, its content is a prefix of the text of the sorted
\* sequence.
C10_OutputFrame ==
    /\ (raisedAt \in {"open_in", "read"} => outFile = outBefore)
    /\ (outFile # outBefore =>
            /\ OutputOpened
            /\ ~ inOpen
            /\ pos > Len(inFile)
            /\ unique_lines = TrimmedLines(inFile))
    /\ (raisedAt \in {"write", "close_out"} => IsPrefix(outFile, Rendered(sorted_lines)))

\* Reading raised after a line had been kept, with an output file in place.
C10_Witness ==
    /\ Terminated
    /\ raisedAt = "read"
    /\ unique_lines # {}
    /\ outBefore # Absent
    /\ outFile = outBefore

====
